---- MODULE Spec2Model ----
(***************************************************************************)
(* Blog backend (Django REST framework, function-based views): users,      *)
(* posts and comments behind role-based permissions.                       *)
(*                                                                         *)
(* The persistent store is three tables (users, posts, comments). Each     *)
(* view function is one action: it takes a request (method, request.user,  *)
(* pk, request.data), runs the permission classes, the lookup, the         *)
(* serializer and the save exactly in the order of the source, and leaves  *)
(* the response in `last` and the store it found in `pre`.                 *)
(*                                                                         *)
(* Conventions                                                             *)
(*   - a table is a sequence indexed by primary key; a deleted row is the  *)
(*     Tombstone, so primary keys are never reused (AutoField);            *)
(*   - an optional value (a payload field that may be absent) is a set of  *)
(*     at most one element: {} absent, {v} present;                        *)
(*   - request bodies are JSON: an absent key is absent from               *)
(*     validated_data;                                                     *)
(*   - text is a sequence of one-character strings where the code          *)
(*     transforms it (titles, e-mail addresses).                           *)
(***************************************************************************)
EXTENDS Integers, Sequences, FiniteSets, TLC

\* Bounds of the model: rows ever created per table, requests per run.
MaxUsers == 3
MaxPosts == 2
MaxComments == 2
MaxSteps == 2
\* Requests served at the same time (worker threads or processes).
MaxWorkers == 2

VARIABLES users, posts, comments, last, pre, steps, inflight

vars == <<users, posts, comments, last, pre, steps, inflight>>

(***************************************************************************)
(* Values                                                                  *)
(***************************************************************************)
\* A foreign key set to NULL (on_delete=SET_NULL, null=True).
Null == 0
\* request.user of a request without credentials (AnonymousUser).
AnonymousUser == -1

None == {}
Some(v) == {v}
Has(o) == o # {}
Val(o) == CHOOSE v \in o : TRUE

Tombstone == [deleted |-> TRUE]
Exists(table, pk) == pk \in 1..Len(table) /\ "deleted" \notin DOMAIN table[pk]
Pks(table) == {pk \in 1..Len(table) : Exists(table, pk)}
\* Model.delete() of row pk.
Delete(table, pk) == [table EXCEPT ![pk] = Tombstone]

\* HTTP status codes used by the views.
HTTP_200_OK == 200
HTTP_201_CREATED == 201
HTTP_204_NO_CONTENT == 204
HTTP_400_BAD_REQUEST == 400
HTTP_401_UNAUTHORIZED == 401
HTTP_403_FORBIDDEN == 403
HTTP_404_NOT_FOUND == 404
HTTP_500_INTERNAL_SERVER_ERROR == 500

\* rest_framework.permissions.SAFE_METHODS
SAFE_METHODS == {"GET", "HEAD", "OPTIONS"}

(***************************************************************************)
(* request.user                                                            *)
(***************************************************************************)
is_authenticated(user) == user # AnonymousUser
is_staff(user) == IF user = AnonymousUser THEN FALSE ELSE users[user].is_staff

\* The users a request can authenticate as, and the anonymous caller.
Callers == {AnonymousUser} \cup Pks(users)

\* rest_framework: a request the permission classes refuse is answered 401
\* when it carries no credentials and 403 otherwise.
permission_denied(user) ==
    [status |-> IF is_authenticated(user) THEN HTTP_403_FORBIDDEN
                ELSE HTTP_401_UNAUTHORIZED,
     data |-> [detail |-> "permission_denied"],
     users |-> users, posts |-> posts, comments |-> comments]

\* A response that leaves the store as it is.
Response(status, data) ==
    [status |-> status, data |-> data,
     users |-> users, posts |-> posts, comments |-> comments]

\* get_object_or_404 raising Http404.
Http404 == Response(HTTP_404_NOT_FOUND, [detail |-> "Not found."])

\* The body of a request the view never ran for.
Unread == [unread |-> TRUE]

(***************************************************************************)
(* posts/permissions.py                                                    *)
(***************************************************************************)
\* Mutant: the unsafe methods are opened to every authenticated user.
IsAdminOrReadOnly_any_authenticated(method, user) ==
    IF method \in SAFE_METHODS THEN TRUE ELSE is_authenticated(user)

IsAdminOrReadOnly_has_permission(method, user) ==
    IF method \in SAFE_METHODS THEN TRUE ELSE is_staff(user)

\* Mutant: the safe methods are opened to anonymous callers.
IsAuthorOrAdmin_public_read(method, user) ==
    IF method \in SAFE_METHODS THEN TRUE ELSE is_authenticated(user)

IsAuthorOrAdmin_has_permission(method, user) ==
    IF ~is_authenticated(user) THEN FALSE ELSE TRUE

\* Mutant: a comment without an author is open to every authenticated user.
IsAuthorOrAdmin_orphan_open(user, obj) ==
    IF is_staff(user) THEN TRUE ELSE obj.author \in {user, Null}

\* Mutant: the author check is dropped.
IsAuthorOrAdmin_any_object(user, obj) == TRUE

IsAuthorOrAdmin_has_object_permission(user, obj) ==
    IF is_staff(user) THEN TRUE ELSE obj.author = user

(***************************************************************************)
(* posts/models.py                                                         *)
(***************************************************************************)
Letters == {"a", "b"}
Capitals == {"A", "B"}
lower(c) == IF c = "A" THEN "a" ELSE IF c = "B" THEN "b" ELSE c
IsWord(c) == c \in Letters \cup Capitals \cup {"_"}
IsSpace(c) == c = " "

\* re.sub(r"[^\w\s-]", "", value.lower())
RECURSIVE DropOther(_)
DropOther(s) ==
    IF s = <<>> THEN <<>>
    ELSE LET c == lower(Head(s)) IN
         IF IsWord(c) \/ IsSpace(c) \/ c = "-"
         THEN <<c>> \o DropOther(Tail(s))
         ELSE DropOther(Tail(s))

\* re.sub(r"[-\s]+", "-", value)
RECURSIVE Hyphenate(_)
Hyphenate(s) ==
    IF s = <<>> THEN <<>>
    ELSE LET sep(c) == IsSpace(c) \/ c = "-" IN
         IF sep(Head(s))
         THEN IF Len(s) > 1 /\ sep(s[2])
              THEN Hyphenate(Tail(s))
              ELSE <<"-">> \o Hyphenate(Tail(s))
         ELSE <<Head(s)>> \o Hyphenate(Tail(s))

\* .strip("-_")
RECURSIVE Strip(_)
Strip(s) ==
    IF s = <<>> THEN <<>>
    ELSE IF Head(s) \in {"-", "_"} THEN Strip(Tail(s))
    ELSE IF s[Len(s)] \in {"-", "_"} THEN Strip(SubSeq(s, 1, Len(s) - 1))
    ELSE s

\* django.utils.text.slugify
slugify(title) == Strip(Hyphenate(DropOther(title)))

\* Mutant: the slug is generated only while the post has none.
Post_save_once(post) ==
    IF post.slug = <<>> THEN [post EXCEPT !.slug = slugify(post.title)] ELSE post

\* Post.save(): the slug is regenerated from the title on every save.
Post_save(post) == [post EXCEPT !.slug = slugify(post.title)]

\* The attributes of a Post instance: its columns, and the reverse accessor
\* of Comment.post, which declares no related_name.
PostAttributes ==
    {"id", "author", "title", "slug", "content", "excerpt", "created_at",
     "updated_at", "is_published", "comment_set"}

\* Mutant: the comments of a deleted post are kept.
Post_delete_no_cascade(pk) ==
    [posts |-> Delete(posts, pk), comments |-> comments]

\* Post.delete(): Comment.post is on_delete=CASCADE.
Post_delete(pk) ==
    [posts |-> Delete(posts, pk),
     comments |-> [c \in 1..Len(comments) |->
                     IF Exists(comments, c) /\ comments[c].post = pk
                     THEN Tombstone ELSE comments[c]]]

(***************************************************************************)
(* posts/serializers.py                                                    *)
(***************************************************************************)
\* The titles and texts requests carry.
Titles == { <<"A", " ", "b">>, <<"B", "!">> }
Contents == {"content"}
Bodies == {"first", "second"}

\* request.data of a post write: any of the keys may be absent. author is a
\* key a client may send; it is not among the fields of PostWriteSerializer.
PostData ==
    [title : {None} \cup {Some(t) : t \in Titles},
     content : {None} \cup {Some(c) : c \in Contents},
     is_published : {None, Some(TRUE), Some(FALSE)},
     author : {None, Some(1)}]

\* request.data of a comment write. author is a key a client may send.
CommentData ==
    [post : {None} \cup {Some(p) : p \in 1..MaxPosts},
     body : {None} \cup {Some(b) : b \in Bodies},
     is_approved : {None, Some(TRUE), Some(FALSE)},
     author : {None, Some(1)}]

\* AuthorSerializer: fields id, email, full_name (names are not modelled).
AuthorSerializer_data(author) ==
    IF author = Null THEN None
    ELSE Some([id |-> author, email |-> users[author].email])

\* Mutant: the title is not checked against the stored titles.
PostWriteSerializer_errors_required_only(data, partial, instance) ==
    {f \in {"title", "content"} : ~partial /\ ~Has(data[f])}

\* PostWriteSerializer.is_valid(): serializer.errors, by field. title is
\* required and unique (the instance being updated excepted), content is
\* required, is_published has a model default.
PostWriteSerializer_errors(data, partial, instance) ==
    {f \in {"title", "content"} : ~partial /\ ~Has(data[f])}
    \cup {f \in {"title"} :
            /\ Has(data.title)
            /\ \E pk \in Pks(posts) \ {instance} :
                 posts[pk].title = Val(data.title)}

\* PostWriteSerializer.save(author=...) without an instance: Post.objects.create.
PostWriteSerializer_create(data, author) ==
    Post_save([author |-> author,
               title |-> Val(data.title),
               slug |-> <<>>,
               content |-> Val(data.content),
               is_published |-> IF Has(data.is_published)
                                THEN Val(data.is_published) ELSE FALSE])

\* Mutant: author is a writable field of the serializer.
PostWriteSerializer_update_author_writable(post, data) ==
    Post_save([post EXCEPT
        !.author = IF Has(data.author) THEN Val(data.author) ELSE @,
        !.title = IF Has(data.title) THEN Val(data.title) ELSE @,
        !.content = IF Has(data.content) THEN Val(data.content) ELSE @,
        !.is_published = IF Has(data.is_published)
                         THEN Val(data.is_published) ELSE @])

\* PostWriteSerializer.save() with an instance: the validated fields are set
\* on it and it is saved.
PostWriteSerializer_update(post, data) ==
    Post_save([post EXCEPT
        !.title = IF Has(data.title) THEN Val(data.title) ELSE @,
        !.content = IF Has(data.content) THEN Val(data.content) ELSE @,
        !.is_published = IF Has(data.is_published)
                         THEN Val(data.is_published) ELSE @])

\* get_url
get_url(table, pk) == <<"/posts/", table[pk].slug, "-", pk, "/">>

\* PostListSerializer(post).data
PostListSerializer_data(pk) ==
    [id |-> pk,
     author |-> AuthorSerializer_data(posts[pk].author),
     title |-> posts[pk].title,
     url |-> get_url(posts, pk)]

\* CommentSerializer(comment).data
CommentSerializer_data(table, pk) ==
    [id |-> pk,
     post |-> table[pk].post,
     author |-> AuthorSerializer_data(table[pk].author),
     body |-> table[pk].body,
     is_approved |-> table[pk].is_approved]

\* PostDetailSerializer.get_comment_count: obj.comments.filter(
\* is_approved=True).count(). None when obj has no attribute comments
\* (AttributeError).
get_comment_count(pk) ==
    IF "comments" \in PostAttributes
    THEN Some(Cardinality({c \in Pks(comments) :
                 comments[c].post = pk /\ comments[c].is_approved}))
    ELSE None

\* PostDetailSerializer(post).data. The read-only field comments is left out
\* when the instance has no such attribute; the method field comment_count
\* raises.
PostDetailSerializer_data(pk) ==
    IF ~Has(get_comment_count(pk))
    THEN Response(HTTP_500_INTERNAL_SERVER_ERROR,
                  [exception |-> "AttributeError"])
    ELSE Response(HTTP_200_OK,
                  [id |-> pk,
                   author |-> AuthorSerializer_data(posts[pk].author),
                   title |-> posts[pk].title,
                   url |-> get_url(posts, pk),
                   content |-> posts[pk].content,
                   comments |-> IF "comments" \in PostAttributes
                                THEN Some({CommentSerializer_data(comments, c) :
                                       c \in {k \in Pks(comments) :
                                                comments[k].post = pk}})
                                ELSE None,
                   comment_count |-> Val(get_comment_count(pk))])

\* queryset.order_by("-created_at"): newest first; rows are created in
\* primary-key order.
RECURSIVE order_by_created_at_desc(_)
order_by_created_at_desc(pks) ==
    IF pks = {} THEN <<>>
    ELSE LET newest == CHOOSE pk \in pks : \A q \in pks : q <= pk IN
         <<newest>> \o order_by_created_at_desc(pks \ {newest})

(***************************************************************************)
(* posts/views.py: posts                                                   *)
(***************************************************************************)
\* Mutant: the list is not filtered by is_published.
post_list_queryset_all(user) == Pks(posts)

\* The queryset of the list view: all posts for staff, the published ones
\* for everybody else.
post_list_queryset(user) ==
    IF is_staff(user) THEN Pks(posts)
    ELSE {pk \in Pks(posts) : posts[pk].is_published}

post_list_create(method, user, data) ==
    IF method = "GET"
    THEN LET ordered == order_by_created_at_desc(post_list_queryset(user)) IN
         Response(HTTP_200_OK,
                  [list |-> [i \in 1..Len(ordered) |->
                               PostListSerializer_data(ordered[i])]])
    ELSE \* POST
         IF PostWriteSerializer_errors(data, FALSE, Null) = {}
         THEN LET created == Append(posts, PostWriteSerializer_create(data, user)) IN
              [Response(HTTP_201_CREATED,
                        [url |-> get_url(created, Len(created)),
                         message |-> "Post created successfully."])
               EXCEPT !.posts = created]
         ELSE Response(HTTP_400_BAD_REQUEST,
                       [errors |-> PostWriteSerializer_errors(data, FALSE, Null)])

\* Mutant: the detail lookup is not filtered by is_published.
post_detail_visible_unfiltered(user, pk) == Exists(posts, pk)

\* The post a GET of the detail view may fetch: any for staff, a published
\* one for everybody else.
post_detail_visible(user, pk) ==
    IF ~is_staff(user)
    THEN Exists(posts, pk) /\ posts[pk].is_published
    ELSE Exists(posts, pk)

post_detail(method, user, pk, data) ==
    IF method = "GET"
    THEN IF post_detail_visible(user, pk)
         THEN PostDetailSerializer_data(pk)
         ELSE Http404
    ELSE IF method \in {"PUT", "PATCH"}
    THEN IF ~Exists(posts, pk) THEN Http404
         ELSE LET partial == method = "PATCH"
                  errors == PostWriteSerializer_errors(data, partial, pk) IN
              IF errors = {}
              THEN [Response(HTTP_200_OK,
                             [message |-> "Post updated successfully."])
                    EXCEPT !.posts = [posts EXCEPT ![pk] =
                                        PostWriteSerializer_update(posts[pk], data)]]
              ELSE Response(HTTP_400_BAD_REQUEST, [errors |-> errors])
    ELSE \* DELETE
         IF ~Exists(posts, pk) THEN Http404
         ELSE [Response(HTTP_204_NO_CONTENT, [empty |-> TRUE])
               EXCEPT !.posts = Post_delete(pk).posts,
                      !.comments = Post_delete(pk).comments]

(***************************************************************************)
(* posts/views.py: comments                                                *)
(***************************************************************************)
\* PrimaryKeyRelatedField(queryset=Post.objects.all()) of the post field.
PrimaryKeyRelatedField_post(pk) == Exists(posts, pk)

\* CommentSerializer.validate_post: Post.objects.get(pk=value.id).
validate_post(pk) == Exists(posts, pk)

\* Mutant: the post field is not checked against the stored posts.
CommentSerializer_errors_required_only(data, partial) ==
    {f \in {"post", "body"} : ~partial /\ ~Has(data[f])}

\* CommentSerializer.is_valid(): serializer.errors, by field. post and body
\* are required; is_approved has a model default; author is read-only.
CommentSerializer_errors(data, partial) ==
    {f \in {"post", "body"} : ~partial /\ ~Has(data[f])}
    \cup {f \in {"post"} :
            /\ Has(data.post)
            /\ ~(PrimaryKeyRelatedField_post(Val(data.post))
                 /\ validate_post(Val(data.post)))}

\* serializer.validated_data: the writable fields of Meta.fields that the
\* request carries (read_only_fields are left out).
CommentSerializer_validated_data(data) ==
    [post |-> data.post, body |-> data.body, is_approved |-> data.is_approved]

\* CommentSerializer.save(author=...) without an instance:
\* Comment.objects.create(**validated_data, author=author).
CommentSerializer_create(validated_data, author) ==
    [post |-> Val(validated_data.post),
     author |-> author,
     body |-> Val(validated_data.body),
     is_approved |-> IF Has(validated_data.is_approved)
                     THEN Val(validated_data.is_approved) ELSE FALSE]

\* CommentSerializer.save() with an instance.
CommentSerializer_update(comment, validated_data) ==
    [comment EXCEPT
        !.post = IF Has(validated_data.post) THEN Val(validated_data.post) ELSE @,
        !.body = IF Has(validated_data.body) THEN Val(validated_data.body) ELSE @,
        !.is_approved = IF Has(validated_data.is_approved)
                        THEN Val(validated_data.is_approved) ELSE @]

comment_create(user, data) ==
    IF CommentSerializer_errors(data, FALSE) = {}
    THEN LET created == Append(comments,
                 CommentSerializer_create(CommentSerializer_validated_data(data), user)) IN
         [Response(HTTP_201_CREATED, CommentSerializer_data(created, Len(created)))
          EXCEPT !.comments = created]
    ELSE Response(HTTP_400_BAD_REQUEST,
                  [errors |-> CommentSerializer_errors(data, FALSE)])

\* Mutant: is_approved is deleted for every caller.
comment_detail_validated_data_dropped(user, data) ==
    [CommentSerializer_validated_data(data) EXCEPT !.is_approved = None]

\* Mutant: is_approved is kept for every caller.
comment_detail_validated_data_unfiltered(user, data) ==
    CommentSerializer_validated_data(data)

\* The validated data a comment update saves: a caller who is not staff has
\* is_approved deleted from it.
comment_detail_validated_data(user, data) ==
    IF ~is_staff(user)
    THEN [CommentSerializer_validated_data(data) EXCEPT !.is_approved = None]
    ELSE CommentSerializer_validated_data(data)

comment_detail(method, user, pk, data) ==
    IF ~Exists(comments, pk) THEN Http404
    ELSE IF ~IsAuthorOrAdmin_has_object_permission(user, comments[pk])
    THEN Response(HTTP_403_FORBIDDEN, [detail |-> "Permission denied."])
    ELSE IF method = "GET"
    THEN Response(HTTP_200_OK, CommentSerializer_data(comments, pk))
    ELSE IF method \in {"PUT", "PATCH"}
    THEN LET partial == method = "PATCH"
             errors == CommentSerializer_errors(data, partial) IN
         IF errors = {}
         THEN LET saved == [comments EXCEPT ![pk] =
                      CommentSerializer_update(comments[pk],
                          comment_detail_validated_data(user, data))] IN
              [Response(HTTP_200_OK, CommentSerializer_data(saved, pk))
               EXCEPT !.comments = saved]
         ELSE Response(HTTP_400_BAD_REQUEST, [errors |-> errors])
    ELSE \* DELETE
         [Response(HTTP_204_NO_CONTENT, [empty |-> TRUE])
          EXCEPT !.comments = Delete(comments, pk)]

(***************************************************************************)
(* users/models.py, users/serializers.py                                   *)
(***************************************************************************)
\* An e-mail address is <<local part, domain>>.
Emails == { <<"admin", "x.org">>, <<"ann", "X.org">>, <<"bob", "x.org">> }
Passwords == {"changed"}

\* BaseUserManager.normalize_email: the domain part is lowercased.
normalize_email(email) ==
    <<email[1], IF email[2] = "X.org" THEN "x.org" ELSE email[2]>>

\* make_password / set_password: the stored value is the hash of the raw one.
make_password(raw) == [algorithm |-> "pbkdf2_sha256", of |-> raw]

\* request.data of a user write.
UserData ==
    [email : {None} \cup {Some(e) : e \in Emails},
     password : {None} \cup {Some(p) : p \in Passwords},
     is_staff : {None, Some(TRUE), Some(FALSE)},
     is_active : {None, Some(TRUE), Some(FALSE)}]

\* Mutant: the e-mail is not checked against the stored users.
UserSerializer_errors_required_only(data, partial, instance) ==
    {f \in {"email", "password"} : ~partial /\ ~Has(data[f])}

\* UserSerializer.is_valid(): e-mail is required and unique (the instance
\* being updated excepted), password is required.
UserSerializer_errors(data, partial, instance) ==
    {f \in {"email", "password"} : ~partial /\ ~Has(data[f])}
    \cup {f \in {"email"} :
            /\ Has(data.email)
            /\ \E pk \in Pks(users) \ {instance} :
                 users[pk].email = Val(data.email)}

\* UserManager.create_user(email, password, **extra_fields): the model
\* defaults are is_staff=False, is_active=True.
create_user(data) ==
    [email |-> normalize_email(Val(data.email)),
     password |-> make_password(Val(data.password)),
     is_staff |-> IF Has(data.is_staff) THEN Val(data.is_staff) ELSE FALSE,
     is_active |-> IF Has(data.is_active) THEN Val(data.is_active) ELSE TRUE]

\* Mutant: ModelSerializer.update without the override, the password is set
\* on the instance as it came.
UserSerializer_update_unhashed(user, data) ==
    [user EXCEPT
        !.email = IF Has(data.email) THEN Val(data.email) ELSE @,
        !.password = IF Has(data.password)
                     THEN [plaintext |-> Val(data.password)] ELSE @,
        !.is_staff = IF Has(data.is_staff) THEN Val(data.is_staff) ELSE @,
        !.is_active = IF Has(data.is_active) THEN Val(data.is_active) ELSE @]

\* UserSerializer.update: a supplied password is hashed, then every validated
\* field is set on the instance and it is saved.
UserSerializer_update(user, data) ==
    [user EXCEPT
        !.email = IF Has(data.email) THEN Val(data.email) ELSE @,
        !.password = IF Has(data.password)
                     THEN make_password(Val(data.password)) ELSE @,
        !.is_staff = IF Has(data.is_staff) THEN Val(data.is_staff) ELSE @,
        !.is_active = IF Has(data.is_active) THEN Val(data.is_active) ELSE @]

\* UserSerializer(user).data: password is write-only.
UserSerializer_data(table, pk) ==
    [id |-> pk,
     email |-> table[pk].email,
     is_staff |-> table[pk].is_staff,
     is_active |-> table[pk].is_active]

\* The unique constraint of the email column, checked by the database when
\* a new row is written.
email_is_unique(email) == \A pk \in Pks(users) : users[pk].email # email

\* Mutant: the posts and comments of a deleted user are deleted with it.
User_delete_cascade(pk) ==
    [users |-> Delete(users, pk),
     posts |-> [p \in 1..Len(posts) |->
                  IF Exists(posts, p) /\ posts[p].author = pk
                  THEN Tombstone ELSE posts[p]],
     comments |-> [c \in 1..Len(comments) |->
                     IF Exists(comments, c) /\ comments[c].author = pk
                     THEN Tombstone ELSE comments[c]]]

\* User.delete(): Post.author and Comment.author are on_delete=SET_NULL.
User_delete(pk) ==
    [users |-> Delete(users, pk),
     posts |-> [p \in 1..Len(posts) |->
                  IF Exists(posts, p) /\ posts[p].author = pk
                  THEN [posts[p] EXCEPT !.author = Null] ELSE posts[p]],
     comments |-> [c \in 1..Len(comments) |->
                     IF Exists(comments, c) /\ comments[c].author = pk
                     THEN [comments[c] EXCEPT !.author = Null] ELSE comments[c]]]

(***************************************************************************)
(* users/views.py                                                          *)
(***************************************************************************)
\* Mutant: IsAuthenticated in the place of IsAdminUser.
IsAdminUser_any_authenticated(user) == is_authenticated(user)

\* rest_framework.permissions.IsAdminUser
IsAdminUser_has_permission(user) == is_staff(user)

getUsers ==
    Response(HTTP_200_OK,
             [list |-> {UserSerializer_data(users, pk) : pk \in Pks(users)}])

registerUser(data) ==
    IF UserSerializer_errors(data, FALSE, Null) = {}
    THEN IF email_is_unique(create_user(data).email)
         THEN LET created == Append(users, create_user(data)) IN
              [Response(HTTP_201_CREATED,
                        [id |-> Len(created),
                         email |-> created[Len(created)].email,
                         message |-> "User registered successfully."])
               EXCEPT !.users = created]
         ELSE Response(HTTP_500_INTERNAL_SERVER_ERROR,
                       [exception |-> "IntegrityError"])
    ELSE Response(HTTP_400_BAD_REQUEST,
                  [errors |-> UserSerializer_errors(data, FALSE, Null)])

userDetail(method, pk, data) ==
    IF ~Exists(users, pk) THEN Response(HTTP_404_NOT_FOUND, [empty |-> TRUE])
    ELSE IF method = "GET"
    THEN Response(HTTP_200_OK, UserSerializer_data(users, pk))
    ELSE IF method \in {"PUT", "PATCH"}
    THEN LET partial == method = "PATCH"
             errors == UserSerializer_errors(data, partial, pk) IN
         IF errors = {}
         THEN LET saved == [users EXCEPT ![pk] =
                              UserSerializer_update(users[pk], data)] IN
              [Response(HTTP_200_OK, UserSerializer_data(saved, pk))
               EXCEPT !.users = saved]
         ELSE Response(HTTP_400_BAD_REQUEST, [errors |-> errors])
    ELSE \* DELETE
         [Response(HTTP_204_NO_CONTENT, [empty |-> TRUE])
          EXCEPT !.users = User_delete(pk).users,
                 !.posts = User_delete(pk).posts,
                 !.comments = User_delete(pk).comments]

(***************************************************************************)
(* The state machine                                                       *)
(***************************************************************************)
NewUser(email, staff) ==
    [email |-> email, password |-> make_password("secret"),
     is_staff |-> staff, is_active |-> TRUE]

NewPost(author, title, published) ==
    Post_save([author |-> author, title |-> title, slug |-> <<>>,
               content |-> "content", is_published |-> published])

NewComment(post, author, body, approved) ==
    [post |-> post, author |-> author, body |-> body, is_approved |-> approved]

\* The stores the test cases of posts/tests.py set up.
\* AdminPostAPITests.setUp: an admin, a regular user and the regular user's
\* unpublished post.
AdminPostFixture ==
    [users |-> << NewUser(<<"admin", "x.org">>, TRUE),
                  NewUser(<<"ann", "x.org">>, FALSE) >>,
     posts |-> << NewPost(2, <<"A", " ", "b">>, FALSE) >>,
     comments |-> << >>]

\* CommentAPITests.setUp: an author, another user and an admin; the author's
\* published post; an unapproved comment of the author and an approved one
\* of the other user.
CommentFixture ==
    [users |-> << NewUser(<<"ann", "x.org">>, FALSE),
                  NewUser(<<"bob", "x.org">>, FALSE),
                  NewUser(<<"admin", "x.org">>, TRUE) >>,
     posts |-> << NewPost(1, <<"A", " ", "b">>, TRUE) >>,
     comments |-> << NewComment(1, 1, "first", FALSE),
                     NewComment(1, 2, "second", TRUE) >>]

\* PublicPostAPITests.setUp: a user with a published and an unpublished post.
PublicPostFixture ==
    [users |-> << NewUser(<<"ann", "x.org">>, FALSE) >>,
     posts |-> << NewPost(1, <<"A", " ", "b">>, TRUE),
                  NewPost(1, <<"B", "!">>, FALSE) >>,
     comments |-> << >>]

\* A store built with the same helpers (create_user, create_superuser,
\* create_post, create_comment): a regular user and an admin, a published
\* post of the admin with an approved comment of the user, and an unpublished
\* post of the user with an unapproved comment of the admin.
TwoPostsFixture ==
    [users |-> << NewUser(<<"ann", "x.org">>, FALSE),
                  NewUser(<<"admin", "x.org">>, TRUE) >>,
     posts |-> << NewPost(2, <<"A", " ", "b">>, TRUE),
                  NewPost(1, <<"B", "!">>, FALSE) >>,
     comments |-> << NewComment(1, 1, "first", TRUE),
                     NewComment(2, 2, "second", FALSE) >>]

Fixtures == {AdminPostFixture, CommentFixture, PublicPostFixture, TwoPostsFixture}

\* No request is being answered.
NoRequest ==
    [op |-> "none", method |-> "", user |-> AnonymousUser, pk |-> Null,
     data |-> Unread, status |-> Null, response |-> [empty |-> TRUE]]

\* The workers and the request each is serving. A request is a record of
\* its position (pc: waiting for a request, validated and about to write,
\* done), the view (op), what it was sent, what it has read from the store
\* (instance), the data it is about to save and, once done, its status.
Workers == 1..MaxWorkers

NoInstance == [none |-> TRUE]

Request(pc, op, method, user, pk, data, instance, validated_data, status) ==
    [pc |-> pc, op |-> op, method |-> method, user |-> user, pk |-> pk,
     data |-> data, instance |-> instance, validated_data |-> validated_data,
     status |-> status]

Waiting ==
    Request("waiting", "none", "", AnonymousUser, Null, Unread, NoInstance,
            Unread, Null)

Init ==
    /\ \E f \in Fixtures :
         /\ users = f.users
         /\ posts = f.posts
         /\ comments = f.comments
         /\ pre = f
    /\ last = NoRequest
    /\ steps = 0
    /\ inflight = [w \in Workers |-> Waiting]

\* One request: the response r of the view is recorded in last, the store it
\* wrote becomes the store, the store it found is kept in pre.
Respond(op, method, user, pk, data, r) ==
    /\ last = NoRequest
    /\ Len(r.users) <= MaxUsers
    /\ Len(r.posts) <= MaxPosts
    /\ Len(r.comments) <= MaxComments
    /\ last' = [op |-> op, method |-> method, user |-> user, pk |-> pk,
                data |-> data, status |-> r.status, response |-> r.data]
    /\ users' = r.users
    /\ posts' = r.posts
    /\ comments' = r.comments
    /\ pre' = [users |-> users, posts |-> posts, comments |-> comments]
    /\ steps' = steps + 1
    /\ UNCHANGED inflight

\* @api_view(["GET", "POST"]) @permission_classes([IsAdminOrReadOnly])
PostListCreate ==
    /\ steps < MaxSteps
    /\ \E method \in {"GET", "POST"}, user \in Callers :
         IF ~IsAdminOrReadOnly_has_permission(method, user)
         THEN Respond("post_list_create", method, user, Null, Unread,
                      permission_denied(user))
         ELSE IF method = "GET"
         THEN Respond("post_list_create", method, user, Null, Unread,
                      post_list_create(method, user, Unread))
         ELSE \E data \in PostData :
                Respond("post_list_create", method, user, Null, data,
                        post_list_create(method, user, data))

\* @api_view(["GET", "PUT", "PATCH", "DELETE"]) @permission_classes([IsAdminOrReadOnly])
PostDetail ==
    /\ steps < MaxSteps
    /\ \E method \in {"GET", "PUT", "PATCH", "DELETE"}, user \in Callers,
          pk \in 1..(Len(posts) + 1) :
         IF ~IsAdminOrReadOnly_has_permission(method, user)
         THEN Respond("post_detail", method, user, pk, Unread,
                      permission_denied(user))
         ELSE IF method \in {"GET", "DELETE"}
         THEN Respond("post_detail", method, user, pk, Unread,
                      post_detail(method, user, pk, Unread))
         ELSE \E data \in PostData :
                Respond("post_detail", method, user, pk, data,
                        post_detail(method, user, pk, data))

\* @api_view(["POST"]) @permission_classes([IsAuthenticated])
CommentCreate ==
    /\ steps < MaxSteps
    /\ \E user \in Callers :
         IF ~is_authenticated(user)
         THEN Respond("comment_create", "POST", user, Null, Unread,
                      permission_denied(user))
         ELSE \E data \in CommentData :
                Respond("comment_create", "POST", user, Null, data,
                        comment_create(user, data))

\* @api_view(["GET", "PUT", "PATCH", "DELETE"]) @permission_classes([IsAuthorOrAdmin])
CommentDetail ==
    /\ steps < MaxSteps
    /\ \E method \in {"GET", "PUT", "PATCH", "DELETE"}, user \in Callers,
          pk \in 1..(Len(comments) + 1) :
         IF ~IsAuthorOrAdmin_has_permission(method, user)
         THEN Respond("comment_detail", method, user, pk, Unread,
                      permission_denied(user))
         ELSE IF method \in {"GET", "DELETE"}
         THEN Respond("comment_detail", method, user, pk, Unread,
                      comment_detail(method, user, pk, Unread))
         ELSE \E data \in CommentData :
                Respond("comment_detail", method, user, pk, data,
                        comment_detail(method, user, pk, data))

\* @api_view(["GET"]) @permission_classes([IsAdminUser])
GetUsers ==
    /\ steps < MaxSteps
    /\ \E user \in Callers :
         IF ~IsAdminUser_has_permission(user)
         THEN Respond("getUsers", "GET", user, Null, Unread, permission_denied(user))
         ELSE Respond("getUsers", "GET", user, Null, Unread, getUsers)

\* @api_view(["POST"]) @permission_classes([AllowAny])
RegisterUser ==
    /\ steps < MaxSteps
    /\ \E user \in Callers, data \in UserData :
         Respond("registerUser", "POST", user, Null, data, registerUser(data))

\* @api_view(["GET", "PUT", "PATCH", "DELETE"]) @permission_classes([IsAdminUser])
UserDetail ==
    /\ steps < MaxSteps
    /\ \E method \in {"GET", "PUT", "PATCH", "DELETE"}, user \in Callers,
          pk \in 1..(Len(users) + 1) :
         IF ~IsAdminUser_has_permission(user)
         THEN Respond("userDetail", method, user, pk, Unread,
                      permission_denied(user))
         ELSE IF method \in {"GET", "DELETE"}
         THEN Respond("userDetail", method, user, pk, Unread,
                      userDetail(method, pk, Unread))
         ELSE \E data \in UserData :
                Respond("userDetail", method, user, pk, data,
                        userDetail(method, pk, data))

\* The response has been sent; the server waits for the next request.
Idle ==
    /\ last # NoRequest
    /\ last' = NoRequest
    /\ pre' = [users |-> users, posts |-> posts, comments |-> comments]
    /\ UNCHANGED <<users, posts, comments, steps, inflight>>

Next ==
    \/ PostListCreate
    \/ PostDetail
    \/ CommentCreate
    \/ CommentDetail
    \/ GetUsers
    \/ RegisterUser
    \/ UserDetail
    \/ Idle

Spec == Init /\ [][Next]_vars

(***************************************************************************)
(* Requests served at the same time                                        *)
(*                                                                         *)
(* No view opens a transaction or locks a row, so a request that writes is *)
(* two steps on the store: Begin reads and validates (get_object_or_404,   *)
(* has_object_permission, serializer.is_valid()), Save writes              *)
(* (serializer.save(), post.delete()), and the steps of other requests may *)
(* fall between the two. Each worker serves one request. A request that    *)
(* fails validation is done at Begin; requests refused by the permission   *)
(* classes never reach the store and are those of Spec.                    *)
(***************************************************************************)
\* The payloads the concurrent requests carry.
WorkerCommentData ==
    {d \in CommentData : d.author = None /\ d.body # Some("second")}
WorkerUserData ==
    {d \in UserData : d.is_staff = None /\ d.is_active = None /\ Has(d.password)}
WorkerPostData ==
    {d \in PostData : d.author = None /\ d.is_published = None /\ Has(d.content)}

\* Mutant: the store does not enforce the foreign keys.
ForeignKeysHold_unchecked(comment) == TRUE

\* The foreign key constraints of a comment row, checked by the database
\* when the row is written: post, and author unless it is NULL.
ForeignKeysHold(comment) ==
    /\ Exists(posts, comment.post)
    /\ comment.author = Null \/ Exists(users, comment.author)

\* The unique constraint of the title column.
title_is_unique(title) == \A pk \in Pks(posts) : posts[pk].title # title

\* The request of worker w ends with this status.
Done(w, pk, status) ==
    [inflight EXCEPT ![w] = [@ EXCEPT !.pc = "done", !.pk = pk, !.status = status]]

Serving(w, op) == inflight[w].pc = "validated" /\ inflight[w].op = op

\* comment_create up to serializer.is_valid().
BeginCommentCreate(w) ==
    /\ inflight[w].pc = "waiting"
    /\ \E user \in Pks(users), data \in WorkerCommentData :
         inflight' = [inflight EXCEPT ![w] =
            IF CommentSerializer_errors(data, FALSE) = {}
            THEN Request("validated", "comment_create", "POST", user, Null, data,
                         NoInstance, CommentSerializer_validated_data(data), Null)
            ELSE Request("done", "comment_create", "POST", user, Null, data,
                         NoInstance, Unread, HTTP_400_BAD_REQUEST)]
    /\ UNCHANGED <<users, posts, comments, last, pre, steps>>

\* comment_create: serializer.save(author=request.user), an INSERT.
SaveCommentCreate(w) ==
    /\ Serving(w, "comment_create")
    /\ LET row == CommentSerializer_create(inflight[w].validated_data,
                                           inflight[w].user) IN
       IF ForeignKeysHold(row)
       THEN /\ comments' = Append(comments, row)
            /\ inflight' = Done(w, Len(comments) + 1, HTTP_201_CREATED)
       ELSE /\ UNCHANGED comments
            /\ inflight' = Done(w, Null, HTTP_500_INTERNAL_SERVER_ERROR)
    /\ UNCHANGED <<users, posts, last, pre, steps>>

\* comment_detail (PUT, PATCH) up to serializer.is_valid() and the deletion
\* of is_approved from validated_data; instance is the row as it was read.
BeginCommentUpdate(w) ==
    /\ inflight[w].pc = "waiting"
    /\ \E method \in {"PUT", "PATCH"}, user \in Pks(users),
          pk \in Pks(comments), data \in WorkerCommentData :
         inflight' = [inflight EXCEPT ![w] =
            IF ~IsAuthorOrAdmin_has_object_permission(user, comments[pk])
            THEN Request("done", "comment_detail", method, user, pk, Unread,
                         NoInstance, Unread, HTTP_403_FORBIDDEN)
            ELSE IF CommentSerializer_errors(data, method = "PATCH") # {}
            THEN Request("done", "comment_detail", method, user, pk, data,
                         NoInstance, Unread, HTTP_400_BAD_REQUEST)
            ELSE Request("validated", "comment_detail", method, user, pk, data,
                         comments[pk], comment_detail_validated_data(user, data),
                         Null)]
    /\ UNCHANGED <<users, posts, comments, last, pre, steps>>

\* comment_detail: serializer.save(). ModelSerializer.update sets the
\* validated fields on the instance and instance.save() writes every column
\* of the instance: an UPDATE of the row, or an INSERT under the same primary
\* key when the UPDATE finds no row.
SaveCommentUpdate(w) ==
    /\ Serving(w, "comment_detail")
    /\ LET saved == CommentSerializer_update(inflight[w].instance,
                                             inflight[w].validated_data) IN
       IF ForeignKeysHold(saved)
       THEN /\ comments' = [comments EXCEPT ![inflight[w].pk] = saved]
            /\ inflight' = Done(w, inflight[w].pk, HTTP_200_OK)
       ELSE /\ UNCHANGED comments
            /\ inflight' = Done(w, inflight[w].pk, HTTP_500_INTERNAL_SERVER_ERROR)
    /\ UNCHANGED <<users, posts, last, pre, steps>>

\* post_detail (DELETE) up to get_object_or_404; instance holds the comments
\* of the post at that time.
BeginPostDelete(w) ==
    /\ inflight[w].pc = "waiting"
    /\ \E user \in {u \in Pks(users) : is_staff(u)}, pk \in Pks(posts) :
         inflight' = [inflight EXCEPT ![w] =
            Request("validated", "post_detail", "DELETE", user, pk, Unread,
                    [collected |-> {c \in Pks(comments) : comments[c].post = pk}],
                    Unread, Null)]
    /\ UNCHANGED <<users, posts, comments, last, pre, steps>>

\* post_detail: post.delete(), in the transaction Model.delete opens: the
\* comments of the post are deleted, then the post. A comment written to the
\* post since the request began is either deleted with the others or, when
\* its INSERT fell between the two DELETE statements, makes the DELETE of the
\* post fail on the foreign key, which rolls the deletion back.
FinishPostDelete(w) ==
    /\ Serving(w, "post_detail")
    /\ LET pk == inflight[w].pk
           late == {c \in Pks(comments) : comments[c].post = pk}
                     \ inflight[w].instance.collected IN
       \/ /\ posts' = Post_delete(pk).posts
          /\ comments' = Post_delete(pk).comments
          /\ inflight' = Done(w, pk, HTTP_204_NO_CONTENT)
       \/ /\ late # {}
          /\ UNCHANGED <<posts, comments>>
          /\ inflight' = Done(w, pk, HTTP_500_INTERNAL_SERVER_ERROR)
    /\ UNCHANGED <<users, last, pre, steps>>

\* registerUser up to serializer.is_valid().
BeginRegisterUser(w) ==
    /\ inflight[w].pc = "waiting"
    /\ \E data \in WorkerUserData :
         inflight' = [inflight EXCEPT ![w] =
            IF UserSerializer_errors(data, FALSE, Null) = {}
            THEN Request("validated", "registerUser", "POST", AnonymousUser, Null,
                         data, NoInstance, data, Null)
            ELSE Request("done", "registerUser", "POST", AnonymousUser, Null,
                         data, NoInstance, Unread, HTTP_400_BAD_REQUEST)]
    /\ UNCHANGED <<users, posts, comments, last, pre, steps>>

\* registerUser: serializer.save(), User.objects.create_user, an INSERT.
SaveRegisterUser(w) ==
    /\ Serving(w, "registerUser")
    /\ LET row == create_user(inflight[w].validated_data) IN
       IF email_is_unique(row.email)
       THEN /\ users' = Append(users, row)
            /\ inflight' = Done(w, Len(users) + 1, HTTP_201_CREATED)
       ELSE /\ UNCHANGED users
            /\ inflight' = Done(w, Null, HTTP_500_INTERNAL_SERVER_ERROR)
    /\ UNCHANGED <<posts, comments, last, pre, steps>>

\* post_list_create (POST) up to serializer.is_valid().
BeginPostCreate(w) ==
    /\ inflight[w].pc = "waiting"
    /\ \E user \in {u \in Pks(users) : is_staff(u)}, data \in WorkerPostData :
         inflight' = [inflight EXCEPT ![w] =
            IF PostWriteSerializer_errors(data, FALSE, Null) = {}
            THEN Request("validated", "post_list_create", "POST", user, Null,
                         data, NoInstance, data, Null)
            ELSE Request("done", "post_list_create", "POST", user, Null,
                         data, NoInstance, Unread, HTTP_400_BAD_REQUEST)]
    /\ UNCHANGED <<users, posts, comments, last, pre, steps>>

\* post_list_create: serializer.save(author=request.user), an INSERT.
SavePostCreate(w) ==
    /\ Serving(w, "post_list_create")
    /\ LET row == PostWriteSerializer_create(inflight[w].validated_data,
                                             inflight[w].user) IN
       IF title_is_unique(row.title)
       THEN /\ posts' = Append(posts, row)
            /\ inflight' = Done(w, Len(posts) + 1, HTTP_201_CREATED)
       ELSE /\ UNCHANGED posts
            /\ inflight' = Done(w, Null, HTTP_500_INTERNAL_SERVER_ERROR)
    /\ UNCHANGED <<users, comments, last, pre, steps>>

NextConcurrent ==
    \E w \in Workers :
        \/ BeginCommentCreate(w)
        \/ SaveCommentCreate(w)
        \/ BeginCommentUpdate(w)
        \/ SaveCommentUpdate(w)
        \/ BeginPostDelete(w)
        \/ FinishPostDelete(w)
        \/ BeginRegisterUser(w)
        \/ SaveRegisterUser(w)
        \/ BeginPostCreate(w)
        \/ SavePostCreate(w)

\* pre stays the store the requests started from.
SpecConcurrent == Init /\ [][NextConcurrent]_vars

(***************************************************************************)
(* Properties                                                              *)
(*                                                                         *)
(* In a state that answers a request, pre is the store the request found,  *)
(* last the request and its response, and users, posts, comments the store *)
(* it left.                                                                *)
(***************************************************************************)
\* request.user.is_staff and is_authenticated as the request saw them.
CallerIsStaff == last.user # AnonymousUser /\ pre.users[last.user].is_staff
CallerIsAnonymous == last.user = AnonymousUser
CallerIsNonStaffUser == last.user # AnonymousUser /\ ~pre.users[last.user].is_staff

UNSAFE_METHODS == {"POST", "PUT", "PATCH", "DELETE"}

\* C1: a GET of the detail of an existing unpublished post by a caller who
\* is not staff (anonymous or authenticated) is answered 404.
C1_UnpublishedPostIs404ForNonStaff ==
    ( /\ last.op = "post_detail"
      /\ last.method = "GET"
      /\ Exists(pre.posts, last.pk)
      /\ ~pre.posts[last.pk].is_published
      /\ ~CallerIsStaff )
    => last.status = HTTP_404_NOT_FOUND

\* An authenticated non-staff user asked for an unpublished post that a
\* staff request had unpublished just before, and got 404.
C1_Witness ==
    /\ last.op = "post_detail"
    /\ last.method = "GET"
    /\ steps = 2
    /\ Exists(pre.posts, last.pk)
    /\ ~pre.posts[last.pk].is_published
    /\ CallerIsNonStaffUser
    /\ last.status = HTTP_404_NOT_FOUND

\* C2: a GET of the detail of an existing post by a staff caller is answered
\* 200 with the post's detail representation, published or not, with or
\* without comments.
C2_StaffGetsAnyPostDetail ==
    ( /\ last.op = "post_detail"
      /\ last.method = "GET"
      /\ Exists(pre.posts, last.pk)
      /\ CallerIsStaff )
    => /\ last.status = HTTP_200_OK
       /\ "comment_count" \in DOMAIN last.response
       /\ last.response.id = last.pk

\* C3: an unsafe request on the post collection or a post detail by an
\* anonymous caller is answered 401, by an authenticated non-staff caller
\* 403, and in both cases every table is left as it was; the posts change
\* only under a staff caller.
C3_PostWritesAreStaffOnly ==
    ( /\ last.op \in {"post_list_create", "post_detail"}
      /\ last.method \in UNSAFE_METHODS )
    => /\ CallerIsAnonymous => last.status = HTTP_401_UNAUTHORIZED
       /\ CallerIsNonStaffUser => last.status = HTTP_403_FORBIDDEN
       /\ ~CallerIsStaff => /\ posts = pre.posts
                            /\ comments = pre.comments
                            /\ users = pre.users
       /\ last.status \in {HTTP_200_OK, HTTP_201_CREATED, HTTP_204_NO_CONTENT}
            => CallerIsStaff

\* An authenticated non-staff user sent PATCH to an existing post and was
\* refused with 403.
C3_Witness ==
    /\ last.op = "post_detail"
    /\ last.method = "PATCH"
    /\ Exists(pre.posts, last.pk)
    /\ CallerIsNonStaffUser
    /\ last.status = HTTP_403_FORBIDDEN
    /\ posts = pre.posts

C6_CreatedCommentIsPendingAndOwned ==
    ( /\ last.op = "comment_create"
      /\ last.status = HTTP_201_CREATED )
    => /\ Len(comments) = Len(pre.comments) + 1
       /\ comments[Len(comments)].author = last.user
       /\ comments[Len(comments)].is_approved = FALSE

\* C7: a PUT or PATCH by the non-staff author of a comment whose payload
\* carries is_approved (and is valid otherwise: PUT carries post and body,
\* a carried post exists) is answered 200, stores the carried body and post
\* and leaves the stored is_approved as it was.
C7_AuthorCannotSetIsApproved ==
    ( /\ last.op = "comment_detail"
      /\ last.method \in {"PUT", "PATCH"}
      /\ CallerIsNonStaffUser
      /\ Exists(pre.comments, last.pk)
      /\ pre.comments[last.pk].author = last.user
      /\ last.data # Unread
      /\ Has(last.data.is_approved)
      /\ (last.method = "PUT" => Has(last.data.post) /\ Has(last.data.body))
      /\ (Has(last.data.post) => Exists(pre.posts, Val(last.data.post))) )
    => /\ last.status = HTTP_200_OK
       /\ Exists(comments, last.pk)
       /\ comments[last.pk].is_approved = pre.comments[last.pk].is_approved
       /\ Has(last.data.body) => comments[last.pk].body = Val(last.data.body)
       /\ ~Has(last.data.body) => comments[last.pk].body = pre.comments[last.pk].body
       /\ comments[last.pk].author = last.user
       /\ last.response.is_approved = pre.comments[last.pk].is_approved

\* The non-staff author of an unapproved comment sent PATCH with
\* is_approved = TRUE and a new body: 200, the body is stored, the comment is
\* still unapproved.
C7_Witness ==
    /\ last.op = "comment_detail"
    /\ last.method = "PATCH"
    /\ CallerIsNonStaffUser
    /\ Exists(pre.comments, last.pk)
    /\ pre.comments[last.pk].author = last.user
    /\ ~pre.comments[last.pk].is_approved
    /\ last.data # Unread
    /\ last.data.is_approved = Some(TRUE)
    /\ Has(last.data.body)
    /\ Val(last.data.body) # pre.comments[last.pk].body
    /\ last.status = HTTP_200_OK
    /\ comments[last.pk].body = Val(last.data.body)
    /\ ~comments[last.pk].is_approved

\* C8: every account that registerUser creates has is_staff = FALSE and
\* is_active = TRUE, whatever the payload.
C8_RegisteredAccountIsNonStaffAndActive ==
    ( /\ last.op = "registerUser"
      /\ last.status = HTTP_201_CREATED )
    => /\ Len(users) = Len(pre.users) + 1
       /\ users[Len(users)].is_staff = FALSE
       /\ users[Len(users)].is_active = TRUE

\* C9: comment_create by an anonymous caller is answered 401; with a post id
\* that names no stored post it is answered 400 with an error on the post
\* field; in both cases no comment is created. A comment is created only for
\* an authenticated caller.
C9_CommentCreateNeedsLoginAndPost ==
    last.op = "comment_create"
    => /\ CallerIsAnonymous => /\ last.status = HTTP_401_UNAUTHORIZED
                               /\ comments = pre.comments
       /\ ( /\ ~CallerIsAnonymous
            /\ Has(last.data.post)
            /\ ~Exists(pre.posts, Val(last.data.post)) )
          => /\ last.status = HTTP_400_BAD_REQUEST
             /\ "post" \in last.response.errors
             /\ comments = pre.comments
       /\ comments # pre.comments => ~CallerIsAnonymous

\* An authenticated user posted a comment, valid but for the id of a post
\* that had been deleted, and got 400 with an error on post.
C9_Witness ==
    /\ last.op = "comment_create"
    /\ ~CallerIsAnonymous
    /\ Has(last.data.post)
    /\ Has(last.data.body)
    /\ Val(last.data.post) \in 1..Len(pre.posts)
    /\ ~Exists(pre.posts, Val(last.data.post))
    /\ last.status = HTTP_400_BAD_REQUEST
    /\ last.response.errors = {"post"}
    /\ comments = pre.comments

\* The primary keys of a list response, in its order.
ListedIds == {last.response.list[i].id : i \in 1..Len(last.response.list)}

\* C10: a GET of the post collection is answered 200 with exactly the
\* published posts for a caller who is not staff and exactly the stored posts
\* for a staff caller, each once.
C10_PostListIsFilteredByVisibility ==
    ( /\ last.op = "post_list_create"
      /\ last.method = "GET" )
    => /\ last.status = HTTP_200_OK
       /\ Len(last.response.list) = Cardinality(ListedIds)
       /\ ListedIds = IF CallerIsStaff
                      THEN Pks(pre.posts)
                      ELSE {pk \in Pks(pre.posts) : pre.posts[pk].is_published}

\* A caller who is not staff listed the posts while a published and an
\* unpublished post were stored and got the published one only.
C10_Witness ==
    /\ last.op = "post_list_create"
    /\ last.method = "GET"
    /\ ~CallerIsStaff
    /\ \E p, q \in Pks(pre.posts) :
         /\ pre.posts[p].is_published
         /\ ~pre.posts[q].is_published
         /\ p \in ListedIds
         /\ q \notin ListedIds

\* C11: after a DELETE of a post answered 204 the post is gone, every comment
\* that referenced it is gone (a GET of it is answered 404 for every
\* authenticated caller, the callers who reach the lookup), and every other
\* comment is as it was.
C11_PostDeleteCascadesToComments ==
    ( /\ last.op = "post_detail"
      /\ last.method = "DELETE"
      /\ last.status = HTTP_204_NO_CONTENT )
    => /\ Exists(pre.posts, last.pk)
       /\ ~Exists(posts, last.pk)
       /\ Len(comments) = Len(pre.comments)
       /\ \A c \in Pks(pre.comments) :
            IF pre.comments[c].post = last.pk
            THEN /\ ~Exists(comments, c)
                 /\ \A user \in Pks(users) :
                      comment_detail("GET", user, c, Unread).status
                          = HTTP_404_NOT_FOUND
            ELSE /\ Exists(comments, c)
                 /\ comments[c] = pre.comments[c]

\* A post with a comment was deleted while another post had a comment: the
\* first comment is gone, the second is stored as before.
C11_Witness ==
    /\ last.op = "post_detail"
    /\ last.method = "DELETE"
    /\ last.status = HTTP_204_NO_CONTENT
    /\ \E c, d \in Pks(pre.comments) :
         /\ pre.comments[c].post = last.pk
         /\ pre.comments[d].post # last.pk
         /\ ~Exists(comments, c)
         /\ Exists(comments, d)

\* C12: after a DELETE of a user answered 204 the user is gone, every post
\* and comment the user had authored is stored with author NULL and its other
\* fields as they were, and every other post and comment is as it was.
C12_UserDeleteNullsAuthor ==
    ( /\ last.op = "userDetail"
      /\ last.method = "DELETE"
      /\ last.status = HTTP_204_NO_CONTENT )
    => /\ Exists(pre.users, last.pk)
       /\ ~Exists(users, last.pk)
       /\ Len(posts) = Len(pre.posts)
       /\ Len(comments) = Len(pre.comments)
       /\ \A p \in Pks(pre.posts) :
            /\ Exists(posts, p)
            /\ posts[p] = IF pre.posts[p].author = last.pk
                          THEN [pre.posts[p] EXCEPT !.author = Null]
                          ELSE pre.posts[p]
       /\ \A c \in Pks(pre.comments) :
            /\ Exists(comments, c)
            /\ comments[c] = IF pre.comments[c].author = last.pk
                             THEN [pre.comments[c] EXCEPT !.author = Null]
                             ELSE pre.comments[c]
       /\ \A u \in Pks(pre.users) \ {last.pk} : users[u] = pre.users[u]

\* A user who had authored a post and a comment was deleted while another
\* user had a post and a comment too: the first two are stored with author
\* NULL, the other two keep their author.
C12_Witness ==
    /\ last.op = "userDetail"
    /\ last.method = "DELETE"
    /\ last.status = HTTP_204_NO_CONTENT
    /\ \E p, q \in Pks(posts), c, d \in Pks(comments) :
         /\ pre.posts[p].author = last.pk
         /\ posts[p].author = Null
         /\ pre.posts[q].author \notin {last.pk, Null}
         /\ posts[q].author = pre.posts[q].author
         /\ pre.comments[c].author = last.pk
         /\ comments[c].author = Null
         /\ pre.comments[d].author \notin {last.pk, Null}
         /\ comments[d].author = pre.comments[d].author

IsHashed(password) == "algorithm" \in DOMAIN password

\* C14: the stored password of every user is a hash; after a registration
\* or a staff PUT/PATCH that carried a password and succeeded it is the hash
\* of that password; no response of registerUser, getUsers or userDetail
\* carries a password field.
C14_PasswordsAreHashedAndNeverReturned ==
    /\ \A pk \in Pks(users) : IsHashed(users[pk].password)
    /\ ( /\ last.op = "registerUser"
         /\ last.status = HTTP_201_CREATED )
       => users[Len(users)].password = make_password(Val(last.data.password))
    /\ ( /\ last.op = "userDetail"
         /\ last.method \in {"PUT", "PATCH"}
         /\ last.status = HTTP_200_OK
         /\ Has(last.data.password) )
       => users[last.pk].password = make_password(Val(last.data.password))
    /\ last.op \in {"registerUser", "getUsers", "userDetail"}
       => /\ "password" \notin DOMAIN last.response
          /\ "list" \in DOMAIN last.response
             => \A u \in last.response.list : "password" \notin DOMAIN u

\* A staff PATCH changed the password of a user: the stored value is the
\* hash of the new password, no longer the old hash, and the response shows
\* the user without a password.
C14_Witness ==
    /\ last.op = "userDetail"
    /\ last.method = "PATCH"
    /\ last.status = HTTP_200_OK
    /\ Has(last.data.password)
    /\ users[last.pk].password # pre.users[last.pk].password
    /\ IsHashed(users[last.pk].password)
    /\ users[last.pk].password.of = Val(last.data.password)
    /\ last.response.id = last.pk
    /\ "password" \notin DOMAIN last.response

\* C15: getUsers and userDetail by a caller who is not staff (anonymous or
\* authenticated) are answered 401 or 403 without a user record in the
\* response, and every table, so every user's fields, is left as it was; they
\* succeed only for a staff caller.
C15_UserDirectoryIsStaffOnly ==
    last.op \in {"getUsers", "userDetail"}
    => /\ ~CallerIsStaff
          => /\ last.status \in {HTTP_401_UNAUTHORIZED, HTTP_403_FORBIDDEN}
             /\ "list" \notin DOMAIN last.response
             /\ "email" \notin DOMAIN last.response
             /\ users = pre.users
             /\ posts = pre.posts
             /\ comments = pre.comments
       /\ last.status \in {HTTP_200_OK, HTTP_204_NO_CONTENT} => CallerIsStaff

\* An authenticated user who is not staff sent PATCH to their own user record
\* and was refused; the record is as it was, is_staff included.
C15_Witness ==
    /\ last.op = "userDetail"
    /\ last.method = "PATCH"
    /\ CallerIsNonStaffUser
    /\ last.pk = last.user
    /\ last.status = HTTP_403_FORBIDDEN
    /\ users = pre.users
    /\ ~users[last.pk].is_staff

\* C16: a PUT or PATCH of an existing comment by a staff caller whose payload
\* carries is_approved = v (and is valid otherwise: PUT carries post and body,
\* a carried post exists) is answered 200 and stores is_approved = v, whoever
\* authored the comment and whatever was stored before.
C16_StaffSetsIsApproved ==
    ( /\ last.op = "comment_detail"
      /\ last.method \in {"PUT", "PATCH"}
      /\ CallerIsStaff
      /\ Exists(pre.comments, last.pk)
      /\ Has(last.data.is_approved)
      /\ (last.method = "PUT" => Has(last.data.post) /\ Has(last.data.body))
      /\ (Has(last.data.post) => Exists(pre.posts, Val(last.data.post))) )
    => /\ last.status = HTTP_200_OK
       /\ Exists(comments, last.pk)
       /\ comments[last.pk].is_approved = Val(last.data.is_approved)
       /\ last.response.is_approved = Val(last.data.is_approved)
       /\ comments[last.pk].author = pre.comments[last.pk].author

\* The unapproved comment of CommentAPITests, written by a user who is not
\* staff, was approved by a first request and is set back to unapproved by a
\* staff PATCH.
C16_Witness ==
    /\ steps = 2
    /\ last.op = "comment_detail"
    /\ last.method = "PATCH"
    /\ CallerIsStaff
    /\ pre.users = CommentFixture.users
    /\ Exists(pre.comments, last.pk)
    /\ pre.comments[last.pk].author # last.user
    /\ ~CommentFixture.comments[last.pk].is_approved
    /\ pre.comments[last.pk].is_approved
    /\ last.data.is_approved = Some(FALSE)
    /\ last.status = HTTP_200_OK
    /\ ~comments[last.pk].is_approved

\* C17: a GET of the detail of a post the caller may see is answered with a
\* comment_count equal to the number of stored comments of that post with
\* is_approved = TRUE.
C17_CommentCountIsApprovedComments ==
    ( /\ last.op = "post_detail"
      /\ last.method = "GET"
      /\ Exists(pre.posts, last.pk)
      /\ (pre.posts[last.pk].is_published \/ CallerIsStaff) )
    => /\ "comment_count" \in DOMAIN last.response
       /\ last.response.comment_count =
            Cardinality({c \in Pks(pre.comments) :
                           /\ pre.comments[c].post = last.pk
                           /\ pre.comments[c].is_approved})

\* C18: the slug of every stored post is slugify of its title; a PUT or PATCH
\* that leaves the title as it was leaves the slug as it was, and one that
\* carries a title stores slugify of that title.
C18_SlugIsSlugifyOfTitle ==
    /\ \A pk \in Pks(posts) : posts[pk].slug = slugify(posts[pk].title)
    /\ ( /\ last.op = "post_detail"
         /\ last.method \in {"PUT", "PATCH"}
         /\ last.status = HTTP_200_OK )
       => /\ posts[last.pk].title = pre.posts[last.pk].title
             => posts[last.pk].slug = pre.posts[last.pk].slug
          /\ Has(last.data.title)
             => posts[last.pk].slug = slugify(Val(last.data.title))
    /\ ( /\ last.op = "post_list_create"
         /\ last.method = "POST"
         /\ last.status = HTTP_201_CREATED )
       => posts[Len(posts)].slug = slugify(Val(last.data.title))

\* A staff PATCH gave a post a new title, with a capital and punctuation: the
\* stored slug is no longer the old one and is slugify of the new title.
C18_Witness ==
    /\ last.op = "post_detail"
    /\ last.method = "PATCH"
    /\ last.status = HTTP_200_OK
    /\ Has(last.data.title)
    /\ Val(last.data.title) = <<"B", "!">>
    /\ pre.posts[last.pk].slug = <<"a", "-", "b">>
    /\ posts[last.pk].slug = <<"b">>

\* C19: a post created by post_list_create has the caller as its author,
\* whatever the payload carries; no request changes the author of a stored
\* post or comment, except that the DELETE of a user sets the author of that
\* user's posts and comments to NULL.
C19_AuthorIsSetAtCreationOnly ==
    /\ ( /\ last.op = "post_list_create"
         /\ last.method = "POST"
         /\ last.status = HTTP_201_CREATED )
       => /\ Len(posts) = Len(pre.posts) + 1
          /\ posts[Len(posts)].author = last.user
    /\ \A p \in Pks(pre.posts) \cap Pks(posts) :
         \/ posts[p].author = pre.posts[p].author
         \/ /\ posts[p].author = Null
            /\ last.op = "userDetail"
            /\ last.method = "DELETE"
            /\ last.pk = pre.posts[p].author
    /\ \A c \in Pks(pre.comments) \cap Pks(comments) :
         \/ comments[c].author = pre.comments[c].author
         \/ /\ comments[c].author = Null
            /\ last.op = "userDetail"
            /\ last.method = "DELETE"
            /\ last.pk = pre.comments[c].author

\* A staff PUT on a post written by somebody else carried a new title and an
\* author key naming a user who is not the post's author: 200, the title is
\* stored and the post keeps its author.
C19_Witness ==
    /\ last.op = "post_detail"
    /\ last.method = "PUT"
    /\ last.status = HTTP_200_OK
    /\ Has(last.data.author)
    /\ pre.posts[last.pk].author \notin {Null, last.user, Val(last.data.author)}
    /\ posts[last.pk].title # pre.posts[last.pk].title
    /\ posts[last.pk].author = pre.posts[last.pk].author

\* The payload of a post write fails validation: a write that is not partial
\* lacks title or content, or the title is the title of another stored post.
PostPayloadIsInvalid(instance) ==
    \/ /\ last.method # "PATCH"
       /\ (~Has(last.data.title) \/ ~Has(last.data.content))
    \/ /\ Has(last.data.title)
       /\ \E pk \in Pks(pre.posts) \ {instance} :
            pre.posts[pk].title = Val(last.data.title)

\* C20: a POST of the post collection, or a PUT or PATCH of an existing post,
\* by a staff caller with a payload that fails validation is answered 400
\* with an error for each failing field, and the posts are left as they
\* were.
C20_InvalidPostWriteIs400 ==
    ( /\ CallerIsStaff
      /\ \/ /\ last.op = "post_list_create"
            /\ last.method = "POST"
            /\ PostPayloadIsInvalid(Null)
         \/ /\ last.op = "post_detail"
            /\ last.method \in {"PUT", "PATCH"}
            /\ Exists(pre.posts, last.pk)
            /\ PostPayloadIsInvalid(last.pk) )
    => /\ last.status = HTTP_400_BAD_REQUEST
       /\ last.response.errors # {}
       /\ last.response.errors \subseteq {"title", "content"}
       /\ (last.method # "PATCH" /\ ~Has(last.data.title))
            => "title" \in last.response.errors
       /\ (last.method # "PATCH" /\ ~Has(last.data.content))
            => "content" \in last.response.errors
       /\ ( /\ Has(last.data.title)
            /\ \E pk \in Pks(pre.posts) :
                 /\ ~(last.op = "post_detail" /\ pk = last.pk)
                 /\ pre.posts[pk].title = Val(last.data.title) )
            => "title" \in last.response.errors
       /\ posts = pre.posts
       /\ comments = pre.comments

\* A staff PUT, complete but for a title that another stored post has, was
\* answered 400 with the title field as its only error and wrote nothing.
C20_Witness ==
    /\ last.op = "post_detail"
    /\ last.method = "PUT"
    /\ CallerIsStaff
    /\ Exists(pre.posts, last.pk)
    /\ Has(last.data.title)
    /\ Has(last.data.content)
    /\ \E pk \in Pks(pre.posts) \ {last.pk} :
         pre.posts[pk].title = Val(last.data.title)
    /\ last.status = HTTP_400_BAD_REQUEST
    /\ last.response.errors = {"title"}
    /\ posts = pre.posts

\* The status a comment write that names post pk is answered with.
comment_create_status(user, data, pk) ==
    comment_create(user, [data EXCEPT !.post = Some(pk)]).status

comment_detail_status(method, user, c, data, pk) ==
    comment_detail(method, user, c, [data EXCEPT !.post = Some(pk)]).status

\* C21: for a caller who is not staff, every request that names a post id is
\* answered with the same status for an unpublished post as for an id no
\* stored post has: the GET of the post detail, the creation of a comment on
\* it, and the PUT or PATCH of a comment that moves the comment to it.
C21_UnpublishedPostIsIndistinguishable ==
    \A user \in Callers :
      ~is_staff(user) =>
        \A p \in Pks(posts) :
          ~posts[p].is_published =>
            LET q == Len(posts) + 1 IN
            /\ post_detail("GET", user, p, Unread).status
                 = post_detail("GET", user, q, Unread).status
            /\ is_authenticated(user) =>
                 \A data \in CommentData :
                   /\ comment_create_status(user, data, p)
                        = comment_create_status(user, data, q)
                   /\ \A c \in Pks(comments), method \in {"PUT", "PATCH"} :
                        comment_detail_status(method, user, c, data, p)
                          = comment_detail_status(method, user, c, data, q)

\* C25: a request on a stored comment whose author is NULL by an
\* authenticated caller who is not staff is answered 403, without the
\* comment in the response and with the comments left as they were; a request
\* on it succeeds only for a staff caller, whose GET is answered 200.
C25_OrphanedCommentIsStaffOnly ==
    ( /\ last.op = "comment_detail"
      /\ Exists(pre.comments, last.pk)
      /\ pre.comments[last.pk].author = Null )
    => /\ CallerIsNonStaffUser
          => /\ last.status = HTTP_403_FORBIDDEN
             /\ "body" \notin DOMAIN last.response
             /\ comments = pre.comments
       /\ last.status \in {HTTP_200_OK, HTTP_204_NO_CONTENT} => CallerIsStaff
       /\ (CallerIsStaff /\ last.method = "GET") => last.status = HTTP_200_OK

\* After the author of a comment was deleted, another authenticated user who
\* is not staff sent DELETE to the comment and was refused with 403; the
\* comment is still stored.
C25_Witness ==
    /\ steps = 2
    /\ last.op = "comment_detail"
    /\ last.method = "DELETE"
    /\ Exists(pre.comments, last.pk)
    /\ pre.comments[last.pk].author = Null
    /\ CallerIsNonStaffUser
    /\ last.status = HTTP_403_FORBIDDEN
    /\ Exists(comments, last.pk)

\* The request of worker w is a comment update that was answered 200.
UpdatedComment(w) ==
    /\ inflight[w].pc = "done"
    /\ inflight[w].op = "comment_detail"
    /\ inflight[w].status = HTTP_200_OK

\* C22: when a PUT or PATCH of a comment by its non-staff author and a staff
\* PUT or PATCH that carries is_approved were served at the same time on the
\* same comment and both were answered 200, the stored comment is what one of
\* the two serial orders of the requests leaves, so its is_approved is the
\* value the staff request carried.
C22_CommentUpdatesAreSerializable ==
    \A a, s \in Workers :
      ( /\ a # s
        /\ UpdatedComment(a)
        /\ UpdatedComment(s)
        /\ inflight[a].pk = inflight[s].pk
        /\ ~is_staff(inflight[a].user)
        /\ is_staff(inflight[s].user)
        /\ Has(inflight[s].data.is_approved) )
      => LET pk == inflight[a].pk
             before == pre.comments[pk]
             author_then_staff ==
                 CommentSerializer_update(
                     CommentSerializer_update(before, inflight[a].validated_data),
                     inflight[s].validated_data)
             staff_then_author ==
                 CommentSerializer_update(
                     CommentSerializer_update(before, inflight[s].validated_data),
                     inflight[a].validated_data) IN
         /\ Exists(comments, pk)
         /\ comments[pk] \in {author_then_staff, staff_then_author}
         /\ comments[pk].is_approved = Val(inflight[s].data.is_approved)

\* The request of worker w is of view op, is done and carried value as its
\* field.
DoneWith(w, op, field, value) ==
    /\ inflight[w].pc = "done"
    /\ inflight[w].op = op
    /\ inflight[w].data[field] = Some(value)

\* Of two requests that wrote the same unique value, one was answered 201 and
\* the other 400, or both 400.
OneCreatedOtherInvalid(v, w) ==
    /\ {inflight[v].status, inflight[w].status}
         \subseteq {HTTP_201_CREATED, HTTP_400_BAD_REQUEST}
    /\ ~(inflight[v].status = HTTP_201_CREATED
         /\ inflight[w].status = HTTP_201_CREATED)

\* C23: when two registrations with the same e-mail, or two staff post
\* creations with the same title, were served at the same time, at most one
\* row with that e-mail (title) is stored, and the request that did not
\* create it was answered 400.
C23_ConcurrentDuplicateIs400 ==
    \A v, w \in Workers :
      v # w =>
        /\ \A email \in Emails :
             ( /\ DoneWith(v, "registerUser", "email", email)
               /\ DoneWith(w, "registerUser", "email", email) )
             => /\ Cardinality({pk \in Pks(users) :
                      users[pk].email = normalize_email(email)}) <= 1
                /\ OneCreatedOtherInvalid(v, w)
        /\ \A title \in Titles :
             ( /\ DoneWith(v, "post_list_create", "title", title)
               /\ DoneWith(w, "post_list_create", "title", title) )
             => /\ Cardinality({pk \in Pks(posts) :
                      posts[pk].title = title}) <= 1
                /\ OneCreatedOtherInvalid(v, w)

\* C24: every stored comment references a stored post, however comment
\* creations and updates interleave with post deletions.
C24_CommentsReferenceStoredPosts ==
    \A c \in Pks(comments) : Exists(posts, comments[c].post)

\* A comment creation validated its post, a post deletion served at the same
\* time then deleted the post with 204, and the creation's INSERT failed on
\* the foreign key: no comment was stored.
C24_Witness ==
    \E v, w \in Workers :
      /\ inflight[v].pc = "done"
      /\ inflight[v].op = "comment_create"
      /\ inflight[v].status = HTTP_500_INTERNAL_SERVER_ERROR
      /\ inflight[w].pc = "done"
      /\ inflight[w].op = "post_detail"
      /\ inflight[w].status = HTTP_204_NO_CONTENT
      /\ inflight[v].data.post = Some(inflight[w].pk)
      /\ ~Exists(posts, inflight[w].pk)
      /\ Len(comments) = Len(pre.comments)

====
